---- MODULE Spec2Model ----
(***************************************************************************)
(* Model of the tokenizer of the gee-cpu assembler (tools/ass).            *)
(*                                                                         *)
(*   src/tools/ass/src/token.rs   CodePosition, Token, Tokenizer           *)
(*   src/tools/ass/src/arch.rs    Register8, Register16, Register          *)
(*                                                                         *)
(* A character is a one-character string, a &str / String is a sequence of *)
(* characters, Option<T> is a sequence of length 0 (None) or 1 (Some).     *)
(* The characters modelled are ASCII; isize values stay far below the      *)
(* native width for the inputs enumerated here, so the accumulation of     *)
(* IntegerLiteral is exact.                                                *)
(***************************************************************************)
EXTENDS Integers, Sequences, FiniteSets, TLC

VARIABLES code, tokens, position, taken, start_pos, ret, steps, pc

vars == <<code, tokens, position, taken, start_pos, ret, steps, pc>>

(***************************************************************************)
(* Option<T>                                                               *)
(***************************************************************************)
None == <<>>
Some(x) == <<x>>
unwrap(o) == o[1]

(***************************************************************************)
(* Characters and the std predicates the tokenizer calls on them.          *)
(***************************************************************************)
LowerLetters ==
  << "a","b","c","d","e","f","g","h","i","j","k","l","m",
     "n","o","p","q","r","s","t","u","v","w","x","y","z" >>

UpperLetters ==
  << "A","B","C","D","E","F","G","H","I","J","K","L","M",
     "N","O","P","Q","R","S","T","U","V","W","X","Y","Z" >>

DecimalDigits == << "0","1","2","3","4","5","6","7","8","9" >>

Range(s) == { s[i] : i \in DOMAIN s }

IndexOf(s, c) == CHOOSE i \in DOMAIN s : s[i] = c

\* is_whitespace that does not count the newline
is_whitespace_no_newline(chr) == chr \in { " ", "\t", "\r" }

is_whitespace(chr) == chr \in { " ", "\n", "\t", "\r" }

is_ascii_digit(chr) == chr \in Range(DecimalDigits)

is_alphabetic(chr) == chr \in Range(LowerLetters) \cup Range(UpperLetters)

is_alphanumeric(chr) == is_alphabetic(chr) \/ chr \in Range(DecimalDigits)

\* char::to_digit(radix), for the radixes 2, 8, 10 and 16 the tokenizer uses
to_digit(chr, radix) ==
  LET v == IF chr \in Range(DecimalDigits) THEN IndexOf(DecimalDigits, chr) - 1
           ELSE IF chr \in Range(LowerLetters) THEN IndexOf(LowerLetters, chr) + 9
           ELSE IF chr \in Range(UpperLetters) THEN IndexOf(UpperLetters, chr) + 9
           ELSE radix
  IN IF v < radix THEN Some(v) ELSE None

\* is_digit testing against radix 16 whatever the radix of the literal
is_digit_hex(chr, radix) == to_digit(chr, 16) # None

\* char::is_digit(radix)
is_digit(chr, radix) == to_digit(chr, radix) # None

char_to_lowercase(chr) ==
  IF chr \in Range(UpperLetters) THEN LowerLetters[IndexOf(UpperLetters, chr)]
  ELSE chr

\* str::to_lowercase
to_lowercase(word) == [ i \in DOMAIN word |-> char_to_lowercase(word[i]) ]

(***************************************************************************)
(* CodePosition                                                            *)
(***************************************************************************)
CodePosition(char, row, col) == [ char |-> char, row |-> row, col |-> col ]

CodePosition_default == CodePosition(0, 0, 0)

next(self) == [ self EXCEPT !.char = self.char + 1, !.col = self.col + 1 ]

\* next_row keeping the column of the line it leaves
next_row_keeps_col(self) == [ char |-> self.char + 1, col |-> self.col, row |-> self.row + 1 ]

next_row(self) == [ char |-> self.char + 1, col |-> 0, row |-> self.row + 1 ]

next_auto(self, chr) == IF chr = "\n" THEN next_row(self) ELSE next(self)

(***************************************************************************)
(* arch.rs: the register enums with their discriminants                    *)
(***************************************************************************)
\* Register8 with the discriminants of the halves of B exchanged
Register8_swapped ==
  [ Ax |-> 0,  Ay |-> 1,  Bx |-> 3,  By |-> 2,
    Cx |-> 4,  Cy |-> 5,  Dx |-> 6,  Dy |-> 7,
    Ex |-> 8,  Ey |-> 9,  Fx |-> 10, Fy |-> 11,
    Gx |-> 12, Gy |-> 13, Hx |-> 14, Hy |-> 15 ]

Register8 ==
  [ Ax |-> 0,  Ay |-> 1,  Bx |-> 2,  By |-> 3,
    Cx |-> 4,  Cy |-> 5,  Dx |-> 6,  Dy |-> 7,
    Ex |-> 8,  Ey |-> 9,  Fx |-> 10, Fy |-> 11,
    Gx |-> 12, Gy |-> 13, Hx |-> 14, Hy |-> 15 ]

Register16 ==
  [ A |-> 0, B |-> 1, C |-> 2, D |-> 3, E |-> 4, F |-> 5, G |-> 6, H |-> 7 ]

\* Register::Register8(r) / Register::Register16(r)
Register(variant, r) == [ variant |-> variant, reg |-> r ]

(***************************************************************************)
(* TokenType and Token.  Every token type carries the same three payload   *)
(* fields; the ones a variant does not have are left empty.                *)
(***************************************************************************)
TokenType(type, text, value, register) ==
  [ type |-> type, text |-> text, value |-> value, register |-> register ]

Whitespace == TokenType("Whitespace", <<>>, 0, None)
IntegerLiteral(value) == TokenType("IntegerLiteral", <<>>, value, None)
StringLiteral(str) == TokenType("StringLiteral", str, 0, None)
RegisterPointer(reg) == TokenType("RegisterPointer", <<>>, 0, Some(reg))
InstructionOrKeyword(word) == TokenType("InstructionOrKeyword", word, 0, None)

Eof == TokenType("Eof", <<>>, 0, None)

Token(token, pos) == [ token |-> token, position |-> pos ]

(***************************************************************************)
(* Result<bool>: Ok(done) or the error built by the err! macro.            *)
(***************************************************************************)
NoError == [ message |-> "", line |-> 0, column |-> 0,
             chr |-> None, starts |-> None ]

Ok(done) == [ ok |-> TRUE, done |-> done, error |-> NoError ]

\* err!(message): "Error on line {row + 1}, column {col + 1} || {message}"
\* chr and starts are the values formatted into the message, if any
err(pos, message, chr, starts) ==
  [ ok |-> FALSE, done |-> FALSE,
    error |-> [ message |-> message, line |-> pos.row + 1,
                column |-> pos.col + 1, chr |-> chr, starts |-> starts ] ]

\* the value of ret before step() has been called
NotCalled == [ ok |-> TRUE, done |-> FALSE, error |-> NoError ]

(***************************************************************************)
(* Tokenizer: peek and take.  A cursor is the position together with the   *)
(* number of take() calls that returned a character.                       *)
(***************************************************************************)
Cursor(pos, n) == [ position |-> pos, taken |-> n ]

\* peek looking at the current character whatever the offset asked for
peek_current(source, pos, offset) ==
  IF pos.char < Len(source) THEN Some(source[pos.char + 1]) ELSE None

peek(source, pos, offset) ==
  LET i == pos.char + offset
  IN IF i >= 0 /\ i < Len(source) THEN Some(source[i + 1]) ELSE None

\* take() where peek(0) is Some (every call site unwraps or matches on it)
take(source, cur) ==
  LET chr == unwrap(peek(source, cur.position, 0))
  IN Cursor(next_auto(cur.position, chr), cur.taken + 1)

\* what one step() leaves behind: the token vector, the cursor, the return
StepResult(toks, cur, result) == [ tokens |-> toks, cur |-> cur, ret |-> result ]

(***************************************************************************)
(* step(): the whitespace rule (token.rs 140-153)                          *)
(***************************************************************************)
\* WhitespaceRun leaving the cursor where it is
WhitespaceRun_stuck(source, cur) == cur

\* WhitespaceRun taking one whitespace character instead of the whole run
WhitespaceRun_one(source, cur) ==
  LET x == peek(source, cur.position, 0)
  IN IF x # None /\ is_whitespace(unwrap(x)) THEN take(source, cur) ELSE cur

RECURSIVE WhitespaceRun(_, _)
WhitespaceRun(source, cur) ==
  LET x == peek(source, cur.position, 0)
  IN IF x # None /\ is_whitespace(unwrap(x))
       THEN WhitespaceRun(source, take(source, cur))
       ELSE cur

\* WhitespaceRule reporting the end of the input when its run reaches it
WhitespaceRule_eof(source, toks, cur) ==
  StepResult(Append(toks, Token(Whitespace, cur.position)),
             WhitespaceRun(source, cur),
             Ok(WhitespaceRun(source, cur).position.char = Len(source)))

\* WhitespaceRule consuming the run without pushing a token for it
WhitespaceRule_silent(source, toks, cur) ==
  StepResult(toks, WhitespaceRun(source, cur), Ok(FALSE))

\* WhitespaceRule reading the token's position after the run was consumed
WhitespaceRule_late(source, toks, cur) ==
  StepResult(Append(toks, Token(Whitespace, WhitespaceRun(source, cur).position)),
             WhitespaceRun(source, cur), Ok(FALSE))

WhitespaceRule(source, toks, cur) ==
  StepResult(Append(toks, Token(Whitespace, cur.position)),
             WhitespaceRun(source, cur), Ok(FALSE))

(***************************************************************************)
(* step(): the integer rule (token.rs 159-199)                             *)
(***************************************************************************)
\* the radix chosen from the current character and one character of lookahead
radix_of(source, pos) ==
  IF peek(source, pos, 0) = Some("0")
    THEN LET nxt == peek(source, pos, 1)
         IN IF nxt = Some("x") THEN 16
            ELSE IF nxt = Some("o") THEN 8
            ELSE IF nxt = Some("b") THEN 2
            ELSE 10
    ELSE 10

\* the accumulation loop: value = value * radix + digit while a digit follows
RECURSIVE IntegerBody(_, _, _, _)
IntegerBody(source, cur, radix, value) ==
  LET chr == peek(source, cur.position, 0)
      x == IF chr = None THEN None ELSE to_digit(unwrap(chr), radix)
  IN IF x # None
       THEN IntegerBody(source, take(source, cur), radix, value * radix + unwrap(x))
       ELSE [ cur |-> cur, value |-> value ]

IntegerRule(source, toks, cur) ==
  LET radix == radix_of(source, cur.position)
      body_cur == IF radix # 10 THEN take(source, take(source, cur)) ELSE cur
      x == peek(source, body_cur.position, 0)
  IN IF radix # 10 /\ x = None
       THEN StepResult(toks, body_cur,
              err(body_cur.position, "Malformed integer: EOF before integer body", None, None))
     ELSE IF radix # 10 /\ ~is_digit(unwrap(x), radix)
       THEN StepResult(toks, body_cur,
              err(body_cur.position, "Malformed integer: No integer body", None, None))
     ELSE LET body == IntegerBody(source, body_cur, radix, 0)
          IN StepResult(Append(toks, Token(IntegerLiteral(body.value), cur.position)),
                        body.cur, Ok(FALSE))

(***************************************************************************)
(* step(): the string rule (token.rs 205-235)                              *)
(***************************************************************************)
\* escape letting any character after the backslash stand for itself
escape_lenient(chr) ==
  IF chr = "n" THEN Some("\n") ELSE IF chr = "r" THEN Some("\r") ELSE Some(chr)

\* escape keeping the character after the backslash as it is written
escape_verbatim(chr) ==
  IF chr \in { "n", "r", "\"" } THEN Some(chr) ELSE None

\* the character an escape stands for, None when the escape is not known
escape(chr) ==
  IF chr = "n" THEN Some("\n")
  ELSE IF chr = "r" THEN Some("\r")
  ELSE IF chr = "\"" THEN Some("\"")
  ELSE None

\* the loop of the string rule; cur is past the opening quote at the start
RECURSIVE StringBody(_, _, _, _)
StringBody(source, cur, str, start) ==
  IF peek(source, cur.position, 0) = None
    THEN [ cur |-> cur, str |-> str,
           ret |-> err(cur.position, "Unterminated string",
                       None, Some(<<start.row + 1, start.col + 1>>)) ]
  ELSE LET chr == unwrap(peek(source, cur.position, 0))
           cur1 == take(source, cur)
       IN IF chr = "\\"
            THEN IF peek(source, cur1.position, 0) = None
                   THEN [ cur |-> cur1, str |-> str,
                          ret |-> err(cur1.position,
                                      "Malformed escape sequence: EOF reached", None, None) ]
                 ELSE LET x == unwrap(peek(source, cur1.position, 0))
                          cur2 == take(source, cur1)
                      IN IF escape(x) # None
                           THEN StringBody(source, cur2, Append(str, unwrap(escape(x))), start)
                           ELSE [ cur |-> cur2, str |-> str,
                                  ret |-> err(cur2.position, "Invalid escape sequence",
                                              Some(x), None) ]
          ELSE IF chr = "\""
            THEN [ cur |-> cur1, str |-> str, ret |-> Ok(FALSE) ]
          ELSE StringBody(source, cur1, Append(str, chr), start)

\* StringRule remembering the position after the opening quote as the start
StringRule_after_quote(source, toks, cur) ==
  LET body == StringBody(source, take(source, cur), <<>>, take(source, cur).position)
  IN IF body.ret.ok
       THEN StepResult(Append(toks, Token(StringLiteral(body.str), cur.position)),
                       body.cur, Ok(FALSE))
       ELSE StepResult(toks, body.cur, body.ret)

StringRule(source, toks, cur) ==
  LET body == StringBody(source, take(source, cur), <<>>, cur.position)
  IN IF body.ret.ok
       THEN StepResult(Append(toks, Token(StringLiteral(body.str), cur.position)),
                       body.cur, Ok(FALSE))
       ELSE StepResult(toks, body.cur, body.ret)

(***************************************************************************)
(* step(): the identifier rule (token.rs 240-287)                          *)
(***************************************************************************)
RECURSIVE WordRun(_, _, _)
WordRun(source, cur, word) ==
  LET chr == peek(source, cur.position, 0)
  IN IF chr = None \/ ~is_alphanumeric(unwrap(chr))
       THEN [ cur |-> cur, word |-> word ]
       ELSE WordRun(source, take(source, cur), Append(word, unwrap(chr)))

\* the arms of `match word.as_ref()`, in source order
RegisterArms ==
  << << <<"r","a","x">>, Register("Register8", "Ax") >>,
     << <<"r","a","y">>, Register("Register8", "Ay") >>,
     << <<"r","b","x">>, Register("Register8", "Bx") >>,
     << <<"r","b","y">>, Register("Register8", "By") >>,
     << <<"r","c","x">>, Register("Register8", "Cx") >>,
     << <<"r","c","y">>, Register("Register8", "Cy") >>,
     << <<"r","d","x">>, Register("Register8", "Dx") >>,
     << <<"r","d","y">>, Register("Register8", "Dy") >>,
     << <<"r","e","x">>, Register("Register8", "Ex") >>,
     << <<"r","e","y">>, Register("Register8", "Ey") >>,
     << <<"r","f","x">>, Register("Register8", "Fx") >>,
     << <<"r","f","y">>, Register("Register8", "Fy") >>,
     << <<"r","g","x">>, Register("Register8", "Gx") >>,
     << <<"r","g","y">>, Register("Register8", "Gy") >>,
     << <<"r","h","x">>, Register("Register8", "Hx") >>,
     << <<"r","h","y">>, Register("Register8", "Hy") >>,
     << <<"r","a">>, Register("Register16", "A") >>,
     << <<"r","b">>, Register("Register16", "B") >>,
     << <<"r","c">>, Register("Register16", "C") >>,
     << <<"r","d">>, Register("Register16", "D") >>,
     << <<"r","e">>, Register("Register16", "E") >>,
     << <<"r","f">>, Register("Register16", "F") >>,
     << <<"r","g">>, Register("Register16", "G") >>,
     << <<"r","h">>, Register("Register16", "H") >> >>

\* register_of matching an arm on a prefix of the word instead of the whole word
register_of_prefix(word) ==
  LET hit(i) == /\ Len(RegisterArms[i][1]) <= Len(word)
                /\ SubSeq(word, 1, Len(RegisterArms[i][1])) = RegisterArms[i][1]
  IN IF \E i \in DOMAIN RegisterArms : hit(i)
       THEN Some(RegisterArms[CHOOSE i \in DOMAIN RegisterArms : hit(i)][2])
       ELSE None

\* `let register = match word.as_ref() { ... _ => None }`
register_of(word) ==
  IF \E i \in DOMAIN RegisterArms : RegisterArms[i][1] = word
    THEN Some(RegisterArms[CHOOSE i \in DOMAIN RegisterArms : RegisterArms[i][1] = word][2])
    ELSE None

\* The push of the token is the last statement of the `if` block; the block
\* has no `return Ok(false)`, so control reaches the err! that ends step().
IdentifierRule(source, toks, cur) ==
  LET run == WordRun(source, cur, <<>>)
      word == to_lowercase(run.word)
      register == register_of(word)
      token == IF register # None
                 THEN Token(RegisterPointer(unwrap(register)), cur.position)
                 ELSE Token(InstructionOrKeyword(word), cur.position)
  IN StepResult(Append(toks, token), run.cur,
                err(run.cur.position, "Invalid token: No token matched", None, None))

(***************************************************************************)
(* step(): no rule matched (token.rs 289)                                  *)
(***************************************************************************)
\* NoRule taking the character it fails on
NoRule_consuming(source, toks, cur) ==
  StepResult(toks, take(source, cur),
             err(take(source, cur).position, "Invalid token: No token matched", None, None))

NoRule(source, toks, cur) ==
  StepResult(toks, cur, err(cur.position, "Invalid token: No token matched", None, None))

(***************************************************************************)
(* Tokenizer::step                                                         *)
(***************************************************************************)
\* step() marking the end of the input with an Eof token
step_pushing_eof(source, toks, cur) ==
  LET chr == peek(source, cur.position, 0)
  IN IF chr = None THEN StepResult(Append(toks, Token(Eof, cur.position)), cur, Ok(TRUE))
     ELSE IF is_whitespace(unwrap(chr)) THEN WhitespaceRule(source, toks, cur)
     ELSE IF is_ascii_digit(unwrap(chr)) THEN IntegerRule(source, toks, cur)
     ELSE IF unwrap(chr) = "\"" THEN StringRule(source, toks, cur)
     ELSE IF is_alphabetic(unwrap(chr)) THEN IdentifierRule(source, toks, cur)
     ELSE NoRule(source, toks, cur)

step(source, toks, cur) ==
  LET chr == peek(source, cur.position, 0)
  IN IF chr = None THEN StepResult(toks, cur, Ok(TRUE))
     ELSE IF is_whitespace(unwrap(chr)) THEN WhitespaceRule(source, toks, cur)
     ELSE IF is_ascii_digit(unwrap(chr)) THEN IntegerRule(source, toks, cur)
     ELSE IF unwrap(chr) = "\"" THEN StringRule(source, toks, cur)
     ELSE IF is_alphabetic(unwrap(chr)) THEN IdentifierRule(source, toks, cur)
     ELSE NoRule(source, toks, cur)

(***************************************************************************)
(* The inputs: every text of at most MaxLen characters over Alphabet, and  *)
(* the sample texts below.                                                 *)
(***************************************************************************)
MaxLen == 3

Alphabet ==
  { " ", "\n", "0", "1", "x", "o", "b", "a", "A", "r", "R", "y", "\"", "\\", "n", "#" }

Samples ==
  { <<"m","o","v">>,
    <<"0","x","1","A">>, <<"0","b","1","0","1">>, <<"0","o","1","7">>, <<"4","2">>,
    <<"0","x","g">>, <<"0","o","8">>, <<"0","o">>, <<"0","b","2","1">>,
    <<"\"","a","\\","n","b","\"">>, <<"\"","a","b","c">>,
    <<"\"","a","\n","b","c">>, <<"\"","\\","r","\\","\"","\"","7">>,
    <<"R","A","X">>, <<"r","a","x">>, <<"r","a","y">>, <<"r","a","x","x">>,
    <<"r","a","1">>, <<"r","H","y">>, <<"R","h">>, <<"r","i">>,
    <<" ","\t","\n","\r"," ">>, <<"\n","\n"," ","\t">>,
    <<"1","2"," ","\n","0","x","f","F">>, <<"7","\n","\"","\n","x","\""," ","9">>,
    <<"1","\n", " ", "#">>, <<"\"","\n","\\","q">> }

Inputs == UNION { [ 1..n -> Alphabet ] : n \in 0..MaxLen } \cup Samples

(***************************************************************************)
(* Tokenizer::tokenize: new(), run() and finish().                         *)
(* steps counts the calls of step() that run() has made; start_pos and ret *)
(* are the start position and the return value of the latest call.         *)
(*   pc = "run"      run() is about to call step()                         *)
(*   pc = "finish"   step() returned Ok(true), run() returned Ok(())       *)
(*   pc = "Ok"       tokenize returned Ok(tokens)                          *)
(*   pc = "Err"      step() failed, `?` returned the error from tokenize   *)
(***************************************************************************)
Init ==
  /\ code \in Inputs
  /\ tokens = <<>>
  /\ position = CodePosition_default
  /\ taken = 0
  /\ start_pos = CodePosition_default
  /\ ret = NotCalled
  /\ steps = 0
  /\ pc = "run"

\* run() treating a failed step() as the end of the input
Run_swallowing ==
  /\ pc = "run"
  /\ LET r == step(code, tokens, Cursor(position, taken))
     IN /\ tokens' = r.tokens
        /\ position' = r.cur.position
        /\ taken' = r.cur.taken
        /\ ret' = r.ret
        /\ pc' = IF ~r.ret.ok \/ r.ret.done THEN "finish" ELSE "run"
  /\ start_pos' = position
  /\ steps' = steps + 1
  /\ UNCHANGED code

\* one iteration of `while !(self.step()?) {}`
Run ==
  /\ pc = "run"
  /\ LET r == step(code, tokens, Cursor(position, taken))
     IN /\ tokens' = r.tokens
        /\ position' = r.cur.position
        /\ taken' = r.cur.taken
        /\ ret' = r.ret
        /\ pc' = IF ~r.ret.ok THEN "Err" ELSE IF r.ret.done THEN "finish" ELSE "run"
  /\ start_pos' = position
  /\ steps' = steps + 1
  /\ UNCHANGED code

\* Ok(tokenizer.finish())
Finish ==
  /\ pc = "finish"
  /\ pc' = "Ok"
  /\ UNCHANGED <<code, tokens, position, taken, start_pos, ret, steps>>

Next == Run \/ Finish

Spec == Init /\ [][Next]_vars

(***************************************************************************)
(* Vocabulary of the properties.  Everything below is stated on the text   *)
(* of the input, by index, independently of the loops of step().           *)
(***************************************************************************)
Letters == Range(LowerLetters) \cup Range(UpperLetters)

Digits == Range(DecimalDigits)

Blank == { " ", "\n", "\t", "\r" }

Quote == "\""

Backslash == "\\"

Last(s) == s[Len(s)]

\* step() has been called, and it was called with input left
Called == steps > 0 /\ start_pos.char < Len(code)

\* the character the latest step() was called on
StartChr == code[start_pos.char + 1]

\* with i characters before it, the index of the last character of the
\* maximal run of characters of S that starts there (i when the run is empty)
RunEnd(i, S) ==
  CHOOSE j \in i..Len(code) :
    /\ \A k \in (i + 1)..j : code[k] \in S
    /\ j = Len(code) \/ code[j + 1] \notin S

Folded(w) ==
  [ i \in DOMAIN w |->
      IF \E k \in 1..26 : UpperLetters[k] = w[i]
        THEN LowerLetters[CHOOSE k \in 1..26 : UpperLetters[k] = w[i]]
        ELSE w[i] ]

\* row and column of the position that has the first n characters before it
RowAfter(n) == Cardinality({ i \in 1..n : code[i] = "\n" })

ColAfter(n) ==
  LET nl == { i \in 1..n : code[i] = "\n" }
  IN IF nl = {} THEN n ELSE n - (CHOOSE i \in nl : \A k \in nl : k <= i)

PositionAfter(n) == [ char |-> n, row |-> RowAfter(n), col |-> ColAfter(n) ]

(***************************************************************************)
(* The register spellings, stated on the letters: 'r', a letter a..h, and  *)
(* for a half register 'x' or 'y'.                                         *)
(***************************************************************************)
WholeLetters == SubSeq(LowerLetters, 1, 8)

IsWholeSpelling(w) == Len(w) = 2 /\ w[1] = "r" /\ w[2] \in Range(WholeLetters)

IsHalfSpelling(w) ==
  Len(w) = 3 /\ w[1] = "r" /\ w[2] \in Range(WholeLetters) /\ w[3] \in { "x", "y" }

IsSpelling(w) == IsWholeSpelling(w) \/ IsHalfSpelling(w)

\* index of the whole register a spelling names: A = 0 .. H = 7
WholeIndex(w) == (CHOOSE k \in 1..8 : WholeLetters[k] = w[2]) - 1

\* the word the identifier rule reads when the latest step() started on a letter
StartWord == Folded(SubSeq(code, start_pos.char + 1, RunEnd(start_pos.char, Letters \cup Digits)))

\* C1: whenever the next unconsumed character is alphabetic, step() consumes
\* the maximal run of alphanumeric characters, returns Ok(false) and has
\* appended one token at the start of the run, which is InstructionOrKeyword
\* with the lowercased run when that is not a register spelling; and
\* tokenize("mov") returns Ok([InstructionOrKeyword("mov")]).
C1_IdentifierStepSucceeds ==
  /\ (Called /\ StartChr \in Letters) =>
       /\ ret = Ok(FALSE)
       /\ position.char = RunEnd(start_pos.char, Letters \cup Digits)
       /\ tokens # <<>>
       /\ Last(tokens).position = start_pos
       /\ ~IsSpelling(StartWord) => Last(tokens).token = InstructionOrKeyword(StartWord)
  /\ (code = <<"m", "o", "v">> /\ pc \in { "Ok", "Err" }) =>
       /\ pc = "Ok"
       /\ tokens = << Token(InstructionOrKeyword(<<"m", "o", "v">>), CodePosition(0, 0, 0)) >>

\* C2: the token the identifier rule appends is RegisterPointer(r) exactly
\* when the lowercased alphanumeric run is one of the 24 register spellings,
\* r then being the half register numbered 2 * whole + (0 for x, 1 for y) or
\* the whole register of that letter; any other run gives
\* InstructionOrKeyword with the lowercased run.
C2_RegisterResolution ==
  (Called /\ StartChr \in Letters) =>
    /\ tokens # <<>>
    /\ Last(tokens).position = start_pos
    /\ LET t == Last(tokens).token
           w == StartWord
       IN /\ t.type = "RegisterPointer" <=> IsSpelling(w)
          /\ IsHalfSpelling(w) =>
               /\ unwrap(t.register).variant = "Register8"
               /\ Register8[unwrap(t.register).reg]
                    = 2 * WholeIndex(w) + (IF w[3] = "x" THEN 0 ELSE 1)
          /\ IsWholeSpelling(w) =>
               /\ unwrap(t.register).variant = "Register16"
               /\ Register16[unwrap(t.register).reg] = WholeIndex(w)
          /\ ~IsSpelling(w) => t = InstructionOrKeyword(w)

\* "RAX" resolved to the half register Ax
C2_Witness ==
  /\ code = <<"R", "A", "X">>
  /\ steps = 1
  /\ Len(tokens) = 1
  /\ tokens[1].token = RegisterPointer(Register("Register8", "Ax"))

\* the spans between consecutive token starts, the last one ending with the
\* input, concatenated from token i on
RECURSIVE Spans(_)
Spans(i) ==
  IF i > Len(tokens) THEN <<>>
  ELSE LET from == tokens[i].position.char
           to == IF i = Len(tokens) THEN Len(code) ELSE tokens[i + 1].position.char
       IN SubSeq(code, from + 1, to) \o Spans(i + 1)

\* C3: as long as no step() has failed, the first token starts at index 0,
\* the token a step() appends starts at the cursor position where the
\* previous step() stopped, token starts are strictly increasing, and once
\* run() has completed the cursor index is the length of the input and the
\* spans between consecutive token starts reproduce the input.
C3_Reconstruction ==
  pc # "Err" =>
    /\ tokens # <<>> => tokens[1].position = CodePosition(0, 0, 0)
    /\ \A i \in 1..(Len(tokens) - 1) :
         tokens[i].position.char < tokens[i + 1].position.char
    /\ (steps > 0 /\ ~ret.done) =>
         /\ Len(tokens) = steps
         /\ Last(tokens).position = start_pos
         /\ start_pos.char < position.char
    /\ pc \in { "finish", "Ok" } =>
         /\ position.char = Len(code)
         /\ Spans(1) = code

\* a run that completed with three tokens: integer, whitespace, integer
C3_Witness ==
  /\ pc = "Ok"
  /\ code = <<"1", "2", " ", "\n", "0", "x", "f", "F">>
  /\ Len(tokens) = 3
  /\ tokens[3].position = CodePosition(4, 1, 0)
  /\ position.char = 8

(***************************************************************************)
(* Integer literals, stated on the text.                                   *)
(***************************************************************************)
DigitsLower == << "0","1","2","3","4","5","6","7","8","9","a","b","c","d","e","f" >>

DigitsUpper == << "0","1","2","3","4","5","6","7","8","9","A","B","C","D","E","F" >>

\* the characters that are digits in a radix of at most 16
DigitsOf(radix) == { DigitsLower[k] : k \in 1..radix } \cup { DigitsUpper[k] : k \in 1..radix }

DigitValue(chr) == (CHOOSE k \in 1..16 : DigitsLower[k] = chr \/ DigitsUpper[k] = chr) - 1

\* the positional value of the digit string ds, from digit i on
RECURSIVE Positional(_, _, _)
Positional(ds, radix, i) ==
  IF i > Len(ds) THEN 0
  ELSE DigitValue(ds[i]) * radix ^ (Len(ds) - i) + Positional(ds, radix, i + 1)

\* the radix the prefix at the start of the latest step() announces
StartRadix ==
  IF StartChr = "0" /\ start_pos.char + 2 <= Len(code)
    THEN LET c == code[start_pos.char + 2]
         IN IF c = "x" THEN 16 ELSE IF c = "o" THEN 8 ELSE IF c = "b" THEN 2 ELSE 10
    ELSE 10

\* number of characters before the first character after the prefix
BodyStart == IF StartRadix = 10 THEN start_pos.char ELSE start_pos.char + 2

BodyEnd == RunEnd(BodyStart, DigitsOf(StartRadix))

\* the only token of the run so far is the integer literal v at index 0
OnlyInteger(v) == tokens = << Token(IntegerLiteral(v), CodePosition(0, 0, 0)) >>

\* C4: on a decimal digit step() takes radix 16/8/2 exactly for the prefixes
\* 0x/0o/0b and radix 10 otherwise, consumes the prefix and the maximal run of
\* digits of that radix, and appends one IntegerLiteral with the positional
\* value of the run, positioned at the first character of the literal
\* (prefix included): "0x1A" is 26, "0b101" is 5, "0o17" is 15, "42" is 42.
C4_IntegerLiteral ==
  /\ (Called /\ StartChr \in Digits /\ BodyEnd > BodyStart) =>
       /\ ret = Ok(FALSE)
       /\ position.char = BodyEnd
       /\ Len(tokens) = steps
       /\ Last(tokens) =
            Token(IntegerLiteral(Positional(SubSeq(code, BodyStart + 1, BodyEnd), StartRadix, 1)),
                  start_pos)
  /\ (steps = 1 /\ code = <<"0", "x", "1", "A">>) => OnlyInteger(26)
  /\ (steps = 1 /\ code = <<"0", "b", "1", "0", "1">>) => OnlyInteger(5)
  /\ (steps = 1 /\ code = <<"0", "o", "1", "7">>) => OnlyInteger(15)
  /\ (steps = 1 /\ code = <<"4", "2">>) => OnlyInteger(42)

\* "0x1A" was read as the single literal 26 and the run completed
C4_Witness ==
  /\ code = <<"0", "x", "1", "A">>
  /\ pc = "Ok"
  /\ OnlyInteger(26)
  /\ position.char = 4

\* the error kind MalformedInteger: the two messages of the integer rule
MalformedInteger ==
  { "Malformed integer: No integer body", "Malformed integer: EOF before integer body" }

\* the cursor is on a radix prefix that no digit of its radix follows
PrefixWithoutBody ==
  /\ position.char + 2 <= Len(code)
  /\ code[position.char + 1] = "0"
  /\ code[position.char + 2] \in { "x", "o", "b" }
  /\ LET radix == IF code[position.char + 2] = "x" THEN 16
                  ELSE IF code[position.char + 2] = "o" THEN 8 ELSE 2
     IN \/ position.char + 2 = Len(code)
        \/ code[position.char + 3] \notin DigitsOf(radix)

\* C5: a step() called on "0x", "0o" or "0b" that is followed by the end of
\* the input or by a character that is not a digit of that radix fails with
\* MalformedInteger and appends no token.
C5_MalformedInteger ==
  [][ (pc = "run" /\ PrefixWithoutBody) =>
        /\ ~ret'.ok
        /\ ret'.error.message \in MalformedInteger
        /\ ret'.error.message = "Malformed integer: EOF before integer body"
             <=> position.char + 2 = Len(code)
        /\ tokens' = tokens
        /\ pc' = "Err" ]_vars

\* "0o8": an octal prefix followed by a character that is not an octal digit
C5_Witness ==
  /\ code = <<"0", "o", "8">>
  /\ pc = "Err"
  /\ ret.error.message = "Malformed integer: No integer body"
  /\ tokens = <<>>

(***************************************************************************)
(* String literals, stated on the text.  o is the index (from 1) of the    *)
(* opening quote.                                                          *)
(***************************************************************************)
\* the character at index i is the second character of an escape
RECURSIVE Escaped(_, _)
Escaped(o, i) == i - 1 > o /\ code[i - 1] = Backslash /\ ~Escaped(o, i - 1)

\* the index of the first unescaped quote after the opening one, 0 if none
ClosingQuote(o) ==
  LET closing == { i \in (o + 1)..Len(code) : code[i] = Quote /\ ~Escaped(o, i) }
  IN IF closing = {} THEN 0 ELSE CHOOSE i \in closing : \A k \in closing : i <= k

\* every escape between the indices o and c is one of \n, \r, \"
EscapesValid(o, c) ==
  \A i \in (o + 1)..(c - 1) : Escaped(o, i) => code[i] \in { "n", "r", Quote }

\* the text between the indices o and c with the escapes replaced
Decoded(o, c) ==
  LET inner == [ k \in 1..(c - o - 1) |-> o + k ]
      kept(i) == Escaped(o, i) \/ code[i] # Backslash
      idx == SelectSeq(inner, kept)
  IN [ k \in DOMAIN idx |->
         IF ~Escaped(o, idx[k]) THEN code[idx[k]]
         ELSE IF code[idx[k]] = "n" THEN "\n"
         ELSE IF code[idx[k]] = "r" THEN "\r"
         ELSE code[idx[k]] ]

StartQuote == start_pos.char + 1

\* C6: on a double quote step() consumes up to and including the first
\* unescaped double quote and appends one StringLiteral positioned at the
\* opening quote whose text is what stands between the two quotes with \n,
\* \r and \" replaced by newline, carriage return and quote; the source
\* "a\nb" decodes to a, newline, b.
C6_StringLiteral ==
  /\ ( /\ Called
       /\ StartChr = Quote
       /\ ClosingQuote(StartQuote) # 0
       /\ EscapesValid(StartQuote, ClosingQuote(StartQuote)) ) =>
       /\ ret = Ok(FALSE)
       /\ position.char = ClosingQuote(StartQuote)
       /\ Len(tokens) = steps
       /\ Last(tokens) =
            Token(StringLiteral(Decoded(StartQuote, ClosingQuote(StartQuote))), start_pos)
  /\ (steps = 1 /\ code = <<"\"", "a", "\\", "n", "b", "\"">>) =>
       tokens = << Token(StringLiteral(<<"a", "\n", "b">>), CodePosition(0, 0, 0)) >>

\* the source "a\nb" was decoded to a, newline, b
C6_Witness ==
  /\ code = <<"\"", "a", "\\", "n", "b", "\"">>
  /\ pc = "Ok"
  /\ Len(tokens) = 1
  /\ tokens[1].token = StringLiteral(<<"a", "\n", "b">>)
  /\ position.char = 6

\* the string opened at index o runs into the end of the input: no unescaped
\* quote follows, every escape is valid and the input does not end in a
\* backslash that starts an escape
Unterminated(o) ==
  /\ ClosingQuote(o) = 0
  /\ EscapesValid(o, Len(code) + 1)
  /\ ~(Len(code) > o /\ code[Len(code)] = Backslash /\ ~Escaped(o, Len(code)))

\* the latest step() was called on a quote that opens such a string
StartedUnterminated == Called /\ StartChr = Quote /\ Unterminated(StartQuote)

\* C7 (as stated): a string that reaches the end of the input before its
\* closing quote fails with UnterminatedString, and the position the error
\* reports is that of the opening quote, not the point of failure.
C7_ReportsOpeningQuoteOnly ==
  StartedUnterminated =>
    /\ ~ret.ok
    /\ ret.error.message = "Unterminated string"
    /\ ret.error.line = start_pos.row + 1
    /\ ret.error.column = start_pos.col + 1

\* C7 (amended): a string that reaches the end of the input before its
\* closing quote fails with UnterminatedString; the message names the
\* position of the opening quote (as 1-based line and column), and the line
\* and column the error leads with are those of the point of failure, the
\* end of the input.
C7_UnterminatedString ==
  StartedUnterminated =>
    /\ ~ret.ok
    /\ pc = "Err"
    /\ ret.error.message = "Unterminated string"
    /\ ret.error.starts = Some(<< start_pos.row + 1, start_pos.col + 1 >>)
    /\ position = PositionAfter(Len(code))
    /\ ret.error.line = RowAfter(Len(code)) + 1
    /\ ret.error.column = ColAfter(Len(code)) + 1
    /\ << ret.error.line, ret.error.column >> # unwrap(ret.error.starts)

\* "abc without a closing quote: the message names line 1, column 1, the
\* error leads with line 1, column 5
C7_Witness ==
  /\ code = <<"\"", "a", "b", "c">>
  /\ pc = "Err"
  /\ ret.error.message = "Unterminated string"
  /\ ret.error.starts = Some(<<1, 1>>)
  /\ ret.error.line = 1
  /\ ret.error.column = 5

\* the error kind UnexpectedCharacter: the message of the end of step()
UnexpectedCharacter == "Invalid token: No token matched"

\* the cursor is on a character that starts no token
OnOtherCharacter ==
  /\ position.char < Len(code)
  /\ code[position.char + 1] \notin Blank \cup Digits \cup { Quote } \cup Letters

\* C8 (as stated): a step() called on a character that is not whitespace, not
\* a decimal digit, not a double quote and not alphabetic fails with
\* UnexpectedCharacter, the error names that character and its position, and
\* nothing is consumed or appended.
C8_NamesCharacter ==
  [][ (pc = "run" /\ OnOtherCharacter) =>
        /\ ~ret'.ok
        /\ ret'.error.message = UnexpectedCharacter
        /\ ret'.error.chr = Some(code[position.char + 1])
        /\ ret'.error.line = position.row + 1
        /\ ret'.error.column = position.col + 1
        /\ position' = position
        /\ tokens' = tokens ]_vars

\* C8 (amended): such a step() fails with UnexpectedCharacter, the error
\* reports the position of that character (as 1-based line and column) but
\* does not name the character, and nothing is consumed or appended.
C8_UnexpectedCharacter ==
  [][ (pc = "run" /\ OnOtherCharacter) =>
        /\ ~ret'.ok
        /\ pc' = "Err"
        /\ ret'.error.message = UnexpectedCharacter
        /\ ret'.error.chr = None
        /\ ret'.error.line = RowAfter(position.char) + 1
        /\ ret'.error.column = ColAfter(position.char) + 1
        /\ position' = position
        /\ taken' = taken
        /\ tokens' = tokens ]_vars

\* '#' met on the second line after two tokens
C8_Witness ==
  /\ code = <<"1", "\n", " ", "#">>
  /\ pc = "Err"
  /\ ret.error.message = UnexpectedCharacter
  /\ ret.error.line = 2
  /\ ret.error.column = 2
  /\ position.char = 3
  /\ Len(tokens) = 2

\* the input is one or more whitespace characters and nothing else
AllBlank == Len(code) >= 1 /\ \A i \in 1..Len(code) : code[i] \in Blank

OneWhitespaceToken == tokens = << Token(Whitespace, CodePosition(0, 0, 0)) >>

\* C9: on an input of whitespace characters only, the first step() appends
\* one Whitespace token at (0, 0, 0) that spans the whole input, the next
\* step() reports completion, and tokenize returns that single token.
C9_WhitespaceOnly ==
  AllBlank =>
    /\ pc # "Err"
    /\ steps <= 2
    /\ steps >= 1 => OneWhitespaceToken /\ position.char = Len(code)
    /\ steps = 1 => ret = Ok(FALSE) /\ pc = "run"
    /\ steps = 2 => ret = Ok(TRUE)
    /\ pc = "Ok" => steps = 2

\* five whitespace characters, two of them line breaks, tokenized
C9_Witness ==
  /\ code = <<" ", "\t", "\n", "\r", " ">>
  /\ pc = "Ok"
  /\ OneWhitespaceToken
  /\ steps = 2
  /\ position = CodePosition(5, 1, 2)

\* C10: in every state the cursor's index is the number of characters taken,
\* its row the number of newlines among them and its column the number of
\* characters taken since the last of these newlines (since the start if
\* there is none), whichever rule took them.
C10_PositionInvariant ==
  /\ taken <= Len(code)
  /\ position.char = taken
  /\ position.row = RowAfter(taken)
  /\ position.col = ColAfter(taken)

\* newlines taken by the whitespace rule and by the string rule
C10_Witness ==
  /\ code = <<"7", "\n", "\"", "\n", "x", "\"", " ", "9">>
  /\ pc = "Ok"
  /\ Len(tokens) = 5
  /\ tokens[3].token = StringLiteral(<<"\n", "x">>)
  /\ position = CodePosition(8, 2, 4)

\* the transition is a call of step() by run()
StepCall == steps' = steps + 1

\* C11: every step() that returns Ok(false) has appended exactly one token,
\* has moved the cursor forward by at least one character and has left the
\* tokens appended before unchanged.
C11_OneTokenPerStep ==
  [][ (StepCall /\ ret'.ok /\ ~ret'.done) =>
        /\ Len(tokens') = Len(tokens) + 1
        /\ SubSeq(tokens', 1, Len(tokens)) = tokens
        /\ position'.char >= position.char + 1
        /\ taken' >= taken + 1 ]_vars

\* the third of three successful steps: its token came after the two before
C11_Witness ==
  /\ code = <<"1", "2", " ", "\n", "0", "x", "f", "F">>
  /\ steps = 3
  /\ ret = Ok(FALSE)
  /\ Len(tokens) = 3
  /\ tokens[2].token = Whitespace
  /\ tokens[3].token = IntegerLiteral(255)

(***************************************************************************)
(* Escapes that fail, stated on the text for the string opened at index o. *)
(***************************************************************************)
\* the index where the scan of the string opened at o ends at the latest:
\* its closing quote, or one past the input when it has none
ScanEnd(o) == IF ClosingQuote(o) = 0 THEN Len(code) + 1 ELSE ClosingQuote(o)

\* the indices of the escaped characters that are not n, r or a quote
BadEscapes(o) ==
  { i \in (o + 1)..(ScanEnd(o) - 1) : Escaped(o, i) /\ code[i] \notin { "n", "r", Quote } }

FirstBadEscape(o) == CHOOSE i \in BadEscapes(o) : \A k \in BadEscapes(o) : i <= k

\* the input ends in the backslash of an escape of the string opened at o
DanglingEscape(o) ==
  /\ ClosingQuote(o) = 0
  /\ BadEscapes(o) = {}
  /\ Len(code) > o
  /\ code[Len(code)] = Backslash
  /\ ~Escaped(o, Len(code))

InvalidEscapeSequence == "Invalid escape sequence"

MalformedEscape == "Malformed escape sequence: EOF reached"

\* the error of the latest step() leads with the 1-based line and column of
\* the character that has n characters before it
ReportsCharacterAfter(n) ==
  /\ ret.error.line = RowAfter(n) + 1
  /\ ret.error.column = ColAfter(n) + 1

\* C12: a lexical error reports 1 + the 0-based row and column of the
\* offending character for UnexpectedCharacter, of the first character after
\* the radix prefix for MalformedInteger, and of the offending escape
\* character for InvalidEscapeSequence.
C12_ErrorPosition ==
  (steps > 0 /\ ~ret.ok) =>
    /\ ret.error.message = UnexpectedCharacter => ReportsCharacterAfter(start_pos.char)
    /\ ret.error.message \in MalformedInteger => ReportsCharacterAfter(start_pos.char + 2)
    /\ ret.error.message = InvalidEscapeSequence =>
         ReportsCharacterAfter(FirstBadEscape(StartQuote) - 1)

\* the index (from 1) of the character the cursor is on
AtCursor == position.char + 1

\* the cursor is on a quote
OnQuote == position.char < Len(code) /\ code[AtCursor] = Quote

\* C13: in a string literal a backslash followed by a character other than
\* n, r and the quote makes step() fail with InvalidEscapeSequence carrying
\* that character, and a backslash that ends the input makes step() fail
\* with MalformedEscape, not UnterminatedString; neither appends a token.
C13_EscapeErrors ==
  [][ (pc = "run" /\ OnQuote) =>
        /\ BadEscapes(AtCursor) # {} =>
             /\ ~ret'.ok
             /\ ret'.error.message = InvalidEscapeSequence
             /\ ret'.error.chr = Some(code[FirstBadEscape(AtCursor)])
             /\ position'.char = FirstBadEscape(AtCursor)
             /\ tokens' = tokens
        /\ DanglingEscape(AtCursor) =>
             /\ ~ret'.ok
             /\ ret'.error.message = MalformedEscape
             /\ position'.char = Len(code)
             /\ tokens' = tokens ]_vars

\* the escape \q in a string that started on the line before
C13_Witness ==
  /\ code = <<"\"", "\n", "\\", "q">>
  /\ pc = "Err"
  /\ ret.error.message = InvalidEscapeSequence
  /\ ret.error.chr = Some("q")
  /\ tokens = <<>>

\* a string whose last character is the backslash of an escape
C13_WitnessDangling ==
  /\ code = <<"\"", "a", "\\">>
  /\ pc = "Err"
  /\ ret.error.message = MalformedEscape
  /\ tokens = <<>>

\* C14: after the first step() that fails run() calls step() no more and
\* tokenize returns that error, never the tokens; tokenize returns the tokens
\* only when every step() up to the end of the input succeeded.
C14_FailFast ==
  /\ [][ ret.ok /\ pc # "Err" ]_vars
  /\ [](pc = "Err" <=> ~ret.ok)
  /\ [](pc = "Ok" =>
          /\ ret = Ok(TRUE)
          /\ position.char = Len(code)
          /\ steps = Len(tokens) + 1)

\* the third step() failed after two that had succeeded: the run ended there
C14_Witness ==
  /\ code = <<"1", "\n", " ", "#">>
  /\ pc = "Err"
  /\ steps = 3
  /\ ~ret.ok
  /\ Len(tokens) = 2

\* the token types step() produces
ProducedTypes ==
  { "Whitespace", "IntegerLiteral", "StringLiteral", "RegisterPointer", "InstructionOrKeyword" }

\* C15: the token sequence holds only Whitespace, IntegerLiteral,
\* StringLiteral, RegisterPointer and InstructionOrKeyword tokens (never
\* Symbol, SymbolLiteral or Eof), and the end of the input is signalled by
\* step() returning Ok(true) alone: that call adds no token.
C15_TokenTypes ==
  /\ \A i \in 1..Len(tokens) : tokens[i].token.type \in ProducedTypes
  /\ \A i \in 1..Len(tokens) : tokens[i].position.char < Len(code)
  /\ (steps > 0 /\ ret.ok /\ ret.done) => position.char = Len(code) /\ Len(tokens) = steps - 1
  /\ pc \in { "finish", "Ok" } <=> (steps > 0 /\ ret.ok /\ ret.done)

\* a completed run that produced three of the token types
C15_Witness ==
  /\ code = <<"7", "\n", "\"", "\n", "x", "\"", " ", "9">>
  /\ pc = "Ok"
  /\ { tokens[i].token.type : i \in 1..Len(tokens) }
       = { "Whitespace", "IntegerLiteral", "StringLiteral" }
  /\ ret = Ok(TRUE)

(***************************************************************************)
(* The register model: whole register number i (A = 0 .. H = 7) and its    *)
(* X and Y halves, by variant name.                                        *)
(***************************************************************************)
WholeNames == << "A", "B", "C", "D", "E", "F", "G", "H" >>

XHalfNames == << "Ax", "Bx", "Cx", "Dx", "Ex", "Fx", "Gx", "Hx" >>

YHalfNames == << "Ay", "By", "Cy", "Dy", "Ey", "Fy", "Gy", "Hy" >>

\* the variant of Register8 that 'r' + letter + 'x'/'y' spells
HalfOfSpelling(w) ==
  IF w[3] = "x" THEN XHalfNames[WholeIndex(w) + 1] ELSE YHalfNames[WholeIndex(w) + 1]

\* the whole registers that have the half with encoding e
OwnersOf(e) ==
  { i \in 0..7 : Register8[XHalfNames[i + 1]] = e \/ Register8[YHalfNames[i + 1]] = e }

\* C16: the whole register with index i (A = 0 .. H = 7) has the X half
\* encoded 2 * i and the Y half encoded 2 * i + 1; the 16 half encodings are
\* pairwise distinct and cover 0..15, every half belonging to exactly one
\* whole register; and the spelling 'r' + letter + 'x'/'y' resolves to the
\* half with that encoding.
C16_RegisterEncoding ==
  /\ \A i \in 0..7 :
       /\ Register16[WholeNames[i + 1]] = i
       /\ Register8[XHalfNames[i + 1]] = 2 * i
       /\ Register8[YHalfNames[i + 1]] = 2 * i + 1
  /\ DOMAIN Register8 = Range(XHalfNames) \cup Range(YHalfNames)
  /\ Cardinality(DOMAIN Register8) = 16
  /\ { Register8[h] : h \in DOMAIN Register8 } = 0..15
  /\ \A e \in 0..15 : Cardinality(OwnersOf(e)) = 1
  /\ (Called /\ StartChr \in Letters /\ IsHalfSpelling(StartWord)) =>
       /\ tokens # <<>>
       /\ Last(tokens).token = RegisterPointer(Register("Register8", HalfOfSpelling(StartWord)))
       /\ Register8[HalfOfSpelling(StartWord)]
            = 2 * Register16[WholeNames[WholeIndex(StartWord) + 1]]
                + (IF StartWord[3] = "x" THEN 0 ELSE 1)

\* "rHy" resolved to the Y half of H, encoded 15
C16_Witness ==
  /\ code = <<"r", "H", "y">>
  /\ steps = 1
  /\ tokens # <<>>
  /\ tokens[1].token = RegisterPointer(Register("Register8", "Hy"))
  /\ Register8[unwrap(tokens[1].token.register).reg] = 15

\* C17: a step() that fails appends no token: the token sequence after it is
\* the one before it.
C17_FailedStepAppendsNothing ==
  [][ (StepCall /\ ~ret'.ok) => tokens' = tokens ]_vars

\* C18: run() terminates: the cursor index never decreases and never exceeds
\* the length of the input, every step() that returns Ok(false) increases
\* it, and run() has returned, with completion or with an error, after at
\* most Len(code) + 1 calls of step().
C18_Termination ==
  /\ [](position.char <= Len(code))
  /\ [](steps <= Len(code) + 1)
  /\ [](steps = Len(code) + 1 => pc # "run")
  /\ [][ /\ position'.char >= position.char
         /\ (StepCall /\ ret'.ok /\ ~ret'.done) => position'.char > position.char ]_vars

\* an input of three characters that took all of its four calls of step()
C18_Witness ==
  /\ code = <<"1", " ", "1">>
  /\ pc = "Ok"
  /\ steps = Len(code) + 1
  /\ position.char = Len(code)

(***************************************************************************)
(* A caller that drives the Tokenizer itself: new(), then step() again and *)
(* again, whatever the calls return.  steps counts the calls; pc plays no  *)
(* part.                                                                   *)
(***************************************************************************)
MaxCalls == 5

\* one call of the public step()
Step ==
  /\ steps < MaxCalls
  /\ LET r == step(code, tokens, Cursor(position, taken))
     IN /\ tokens' = r.tokens
        /\ position' = r.cur.position
        /\ taken' = r.cur.taken
        /\ ret' = r.ret
  /\ start_pos' = position
  /\ steps' = steps + 1
  /\ UNCHANGED <<code, pc>>

NextStep == Step

SpecStep == Init /\ [][NextStep]_vars

\* C19: step() returns Ok(true) exactly when the cursor is at the end of the
\* input as it is called; that call changes neither the cursor nor the
\* tokens, so every step() after one that returned Ok(true) returns Ok(true)
\* as well and changes nothing; on the empty input the first step() is such
\* a call and the tokens stay empty.
C19_TerminalStep ==
  /\ [][ StepCall =>
           /\ (ret'.ok /\ ret'.done) <=> position.char = Len(code)
           /\ ret'.done => ret'.ok /\ position' = position /\ taken' = taken /\ tokens' = tokens
       ]_vars
  /\ [][ (StepCall /\ steps > 0 /\ ret.done) =>
           ret' = Ok(TRUE) /\ position' = position /\ tokens' = tokens ]_vars
  /\ []((code = <<>> /\ steps >= 1) => (ret = Ok(TRUE) /\ tokens = <<>>))

\* the third call on " ": the second one had already returned Ok(true)
C19_Witness ==
  /\ code = <<" ">>
  /\ steps = 3
  /\ ret = Ok(TRUE)
  /\ tokens = << Token(Whitespace, CodePosition(0, 0, 0)) >>
  /\ position.char = 1

\* token i is a Whitespace token
IsWhitespaceToken(i) == tokens[i].token = Whitespace

====
